---- MODULE Spec2Model ----
(***************************************************************************)
(* Model of sublime-ycmd's response schema (lib/schema/completions.py) and *)
(* file-system utilities (lib/util/fs.py).                                 *)
(*                                                                         *)
(* Python values are tagged records; the tag is field t and every tag has  *)
(* its own payload field.  An exception leaving a function is the value    *)
(* Raise(<exception class>).  A call is one step from pc = "idle" to       *)
(* pc = "done" (resolve_binary_path takes one step per probed candidate,   *)
(* the two-separator component scan one step per loop iteration), and      *)
(* Return brings the harness back to idle.                                 *)
(***************************************************************************)
EXTENDS Integers, Sequences, FiniteSets, TLC

VARIABLES pc, op, args, result, gen, probed, current_path

vars == <<pc, op, args, result, gen, probed, current_path>>

(***************************************************************************)
(* Bounds of the model.                                                    *)
(***************************************************************************)
MaxCompletions == 2
MaxErrors == 2
MaxDirs == 2

(***************************************************************************)
(* Python / JSON values.                                                   *)
(***************************************************************************)
None == [t |-> "none"]
Str(s) == [t |-> "str", s |-> s]
Bytes(s) == [t |-> "bytes", b |-> s]
Num(i) == [t |-> "int", i |-> i]
List(l) == [t |-> "list", l |-> l]
Dict(d) == [t |-> "dict", d |-> d]
Bool(v) == [t |-> "bool", v |-> v]
Raise(e) == [t |-> "raise", exc |-> e]
Absent == [t |-> "absent"]

IsRaise(v) == v.t = "raise"
IsNone(v) == v.t = "none"

\* Python truthiness, `if v:` / `not v`.
Truthy(v) ==
    CASE v.t = "none" -> FALSE
      [] v.t = "str" -> v.s # ""
      [] v.t = "bytes" -> v.b # ""
      [] v.t = "int" -> v.i # 0
      [] v.t = "bool" -> v.v
      [] v.t = "list" -> Len(v.l) > 0
      [] v.t = "dict" -> DOMAIN v.d # {}
      [] OTHER -> TRUE

\* dict.get(key, None)
Get(d, key) == IF key \in DOMAIN d THEN d[key] ELSE None

SeqsUpTo(S, n) == UNION {[1..k -> S] : k \in 0..n}

(***************************************************************************)
(* str helpers, computed character by character.                           *)
(***************************************************************************)
CharAt(s, i) == SubSeq(s, i, i)

\* s[i:], i 0-based
From(s, i) == SubSeq(s, i + 1, Len(s))

\* s[:i], i 0-based
Upto(s, i) == SubSeq(s, 1, i)

\* str.startswith
startswith(s, p) == Len(p) <= Len(s) /\ SubSeq(s, 1, Len(p)) = p

\* `p in s`
contains(s, p) == \E i \in 1..(Len(s) - Len(p) + 1) : SubSeq(s, i, i + Len(p) - 1) = p

\* str.find: 0-based position of the first occurrence of character c, or -1
find(s, c) ==
    IF \E i \in 1..Len(s) : CharAt(s, i) = c
    THEN (CHOOSE i \in 1..Len(s) : CharAt(s, i) = c /\ \A j \in 1..(i - 1) : CharAt(s, j) # c) - 1
    ELSE -1

RECURSIVE split(_, _)
\* str.split(sep) for a one-character separator
split(s, sep) ==
    LET p == find(s, sep)
    IN IF p < 0 THEN <<s>> ELSE <<Upto(s, p)>> \o split(From(s, p + 1), sep)

RECURSIVE join(_, _)
\* sep.join(parts)
join(sep, parts) ==
    IF Len(parts) = 0 THEN ""
    ELSE IF Len(parts) = 1 THEN parts[1]
    ELSE parts[1] \o sep \o join(sep, Tail(parts))

IsSpace(c) == c \in {" ", "\t", "\n", "\r"}

RECURSIVE lstrip(_)
lstrip(s) == IF Len(s) > 0 /\ IsSpace(CharAt(s, 1)) THEN lstrip(From(s, 1)) ELSE s

RECURSIVE rstrip(_)
rstrip(s) == IF Len(s) > 0 /\ IsSpace(CharAt(s, Len(s))) THEN rstrip(Upto(s, Len(s) - 1)) ELSE s

\* str.strip()
strip(s) == rstrip(lstrip(s))

LowerChar(c) ==
    CASE c = "A" -> "a" [] c = "B" -> "b" [] c = "C" -> "c" [] c = "D" -> "d"
      [] c = "E" -> "e" [] c = "F" -> "f" [] c = "G" -> "g" [] c = "H" -> "h"
      [] c = "I" -> "i" [] c = "J" -> "j" [] c = "K" -> "k" [] c = "L" -> "l"
      [] c = "M" -> "m" [] c = "N" -> "n" [] c = "O" -> "o" [] c = "P" -> "p"
      [] c = "Q" -> "q" [] c = "R" -> "r" [] c = "S" -> "s" [] c = "T" -> "t"
      [] c = "U" -> "u" [] c = "V" -> "v" [] c = "W" -> "w" [] c = "X" -> "x"
      [] c = "Y" -> "y" [] c = "Z" -> "z" [] OTHER -> c

RECURSIVE lower(_)
\* str.lower()
lower(s) == IF Len(s) = 0 THEN "" ELSE LowerChar(CharAt(s, 1)) \o lower(From(s, 1))

Digit(d) ==
    CASE d = 0 -> "0" [] d = 1 -> "1" [] d = 2 -> "2" [] d = 3 -> "3" [] d = 4 -> "4"
      [] d = 5 -> "5" [] d = 6 -> "6" [] d = 7 -> "7" [] d = 8 -> "8" [] d = 9 -> "9"

RECURSIVE str_int(_)
\* str(n) for n >= 0
str_int(n) == IF n < 10 THEN Digit(n) ELSE str_int(n \div 10) \o Digit(n % 10)

(***************************************************************************)
(* Schema objects.                                                         *)
(***************************************************************************)
RequestParameters(file_types) == [t |-> "RequestParameters", file_types |-> file_types]

CompletionResponse(completions, diagnostics) ==
    [t |-> "CompletionResponse", completions |-> completions, diagnostics |-> diagnostics]

Completions(completion_options, start_column) ==
    [t |-> "Completions", completion_options |-> completion_options,
     start_column |-> start_column]

Diagnostics(diagnostics) == [t |-> "Diagnostics", diagnostics |-> diagnostics]

CompletionOption(menu_info, insertion_text, extra_data, detailed_info, file_types, menu_text, kind) ==
    [t |-> "CompletionOption", menu_info |-> menu_info, insertion_text |-> insertion_text,
     extra_data |-> extra_data, detailed_info |-> detailed_info,
     file_types |-> file_types, menu_text |-> menu_text, kind |-> kind]

DiagnosticError(exception_type, message, traceback, file_types) ==
    [t |-> "DiagnosticError", exception_type |-> exception_type, message |-> message,
     traceback |-> traceback, file_types |-> file_types]

\* DiagnosticError.RUNTIME_ERROR
RUNTIME_ERROR == "RuntimeError"

\* an is_runtime_error that takes every entry for a runtime error
is_runtime_error_always(self) == TRUE

\* DiagnosticError.is_runtime_error
is_runtime_error(self) == self.exception_type = Str(RUNTIME_ERROR)

\* DiagnosticError.is_compile_flag_missing_error: `a and b` is a when a is
\* falsy
is_compile_flag_missing_error(self) ==
    IF ~is_runtime_error(self) THEN Raise("AssertionError")
    ELSE IF ~Truthy(self.message) THEN self.message
    ELSE Bool(contains(self.message.s, "no compile flags"))

(***************************************************************************)
(* json_parse (lib/util/format) decodes a JSON document.  The documents    *)
(* the model feeds it are listed here with their decoded value; anything   *)
(* else is not JSON and raises ValueError.                                 *)
(***************************************************************************)
DocArray == "[]"
DocEmpty == "{}"
DocNoErrors == "{\"completions\": [{\"insertion_text\": \"foo\"}], \"completion_start_column\": 1}"
DocFull == "{\"completions\": [], \"errors\": [], \"completion_start_column\": 3}"
DocGarbage == "{completions"

JsonDocs == {DocArray, DocEmpty, DocNoErrors, DocFull, DocGarbage}

json_parse(text) ==
    CASE text = DocArray -> List(<<>>)
      [] text = DocEmpty -> Dict([k \in {} |-> None])
      [] text = DocNoErrors ->
            Dict([completions |-> List(<<Dict([insertion_text |-> Str("foo")])>>),
                  completion_start_column |-> Num(1)])
      [] text = DocFull ->
            Dict([completions |-> List(<<>>), errors |-> List(<<>>),
                  completion_start_column |-> Num(3)])
      [] OTHER -> Raise("ValueError")

(***************************************************************************)
(* lib/schema/completions.py: the parser.                                  *)
(***************************************************************************)
_is_error_list(errors) ==
    IF errors.t # "list" THEN FALSE
    ELSE \A i \in 1..Len(errors.l) : errors.l[i].t = "dict"

_is_completions(completions) ==
    IF completions.t # "list" THEN FALSE
    ELSE \A i \in 1..Len(completions.l) : completions.l[i].t = "dict"

_parse_json_response(json, ignore_errors) ==
    IF json.t \notin {"str", "bytes", "dict"} THEN Raise("TypeError")
    ELSE LET parsed_json ==
                 IF json.t = "str" THEN json_parse(json.s)
                 ELSE IF json.t = "bytes" THEN json_parse(json.b)
                 ELSE json
         IN IF IsRaise(parsed_json) THEN parsed_json
            ELSE IF parsed_json.t # "dict" THEN Raise("AssertionError")
            ELSE IF ~ignore_errors
                    /\ ("errors" \notin DOMAIN parsed_json.d
                        \/ ~_is_error_list(parsed_json.d["errors"]))
                 THEN Raise("ValueError")
            ELSE IF "completions" \notin DOMAIN parsed_json.d
                    \/ ~_is_completions(parsed_json.d["completions"])
                 THEN Raise("ValueError")
            ELSE parsed_json

_parse_completion_option(node, file_types) ==
    IF node.t # "dict" \/ file_types.t \notin {"none", "list"} THEN Raise("AssertionError")
    ELSE CompletionOption(Get(node.d, "extra_menu_info"), Get(node.d, "insertion_text"),
                          Get(node.d, "extra_data"), Get(node.d, "detailed_info"),
                          file_types, Get(node.d, "menu_text"), Get(node.d, "kind"))

\* the options in reverse of the server's order
completion_options_reversed(json_completions, file_types) ==
    [i \in 1..Len(json_completions) |->
        _parse_completion_option(json_completions[Len(json_completions) + 1 - i],
                                 file_types)]

\* parse_compoptions: list(_parse_completion_option(o, ...) for o in json_completions)
completion_options(json_completions, file_types) ==
    [i \in 1..Len(json_completions) |->
        _parse_completion_option(json_completions[i], file_types)]

parse_compoptions(json, request_parameters) ==
    LET j == _parse_json_response(json, TRUE)
    IN IF IsRaise(j) THEN j
       ELSE IF ~IsNone(request_parameters) /\ request_parameters.t # "RequestParameters"
            THEN Raise("TypeError")
       ELSE IF "completion_start_column" \notin DOMAIN j.d THEN Raise("KeyError")
       ELSE LET json_completions == j.d["completions"].l
                file_types == IF Truthy(request_parameters)
                              THEN request_parameters.file_types ELSE None
            IN IF file_types.t \notin {"none", "list"} THEN Raise("AssertionError")
               ELSE Completions(completion_options(json_completions, file_types),
                                j.d["completion_start_column"])

_parse_diagnostic(node, file_types) ==
    IF node.t # "dict" \/ file_types.t \notin {"none", "list"} THEN Raise("AssertionError")
    ELSE LET message == Get(node.d, "message")
             exc == Get(node.d, "exception")
             traceback == Get(node.d, "traceback")
         IN IF Truthy(exc) /\ exc.t # "dict" THEN Raise("AttributeError")
            ELSE LET exception_type == IF Truthy(exc) THEN Get(exc.d, "TYPE") ELSE None
                 IN IF Truthy(exception_type)
                    THEN DiagnosticError(exception_type, message, traceback, None)
                    ELSE Raise("NotImplementedError")

\* parse_diagnostics._try_parse_diagnostic: every exception becomes None
_try_parse_diagnostic(node, file_types) ==
    LET parsed == _parse_diagnostic(node, file_types)
    IN IF IsRaise(parsed) THEN None ELSE parsed

RECURSIVE _iter_diagnostics_until_failure(_, _)
\* an _iter_diagnostics that stops at the first node that did not parse
_iter_diagnostics_until_failure(json_errors, file_types) ==
    IF Len(json_errors) = 0 THEN <<>>
    ELSE LET parsed == _try_parse_diagnostic(Head(json_errors), file_types)
         IN IF Truthy(parsed)
            THEN <<parsed>> \o _iter_diagnostics_until_failure(Tail(json_errors), file_types)
            ELSE <<>>

RECURSIVE _iter_diagnostics(_, _)
\* parse_diagnostics._iter_diagnostics: the truthy parses, in node order
_iter_diagnostics(json_errors, file_types) ==
    IF Len(json_errors) = 0 THEN <<>>
    ELSE LET parsed == _try_parse_diagnostic(Head(json_errors), file_types)
         IN (IF Truthy(parsed) THEN <<parsed>> ELSE <<>>)
            \o _iter_diagnostics(Tail(json_errors), file_types)

parse_diagnostics(json, request_parameters) ==
    LET j == _parse_json_response(json, FALSE)
    IN IF IsRaise(j) THEN j
       ELSE IF ~IsNone(request_parameters) /\ request_parameters.t # "RequestParameters"
            THEN Raise("TypeError")
       ELSE LET json_errors == IF "errors" \in DOMAIN j.d THEN j.d["errors"] ELSE List(<<>>)
                file_types == IF Truthy(request_parameters)
                              THEN request_parameters.file_types ELSE None
            IN IF file_types.t \notin {"none", "list"} THEN Raise("AssertionError")
               ELSE IF ~Truthy(json_errors) THEN Diagnostics(None)
               ELSE Diagnostics(List(_iter_diagnostics(json_errors.l, file_types)))

\* a _attempt_parse that lets the unexpected exceptions through
_attempt_parse_only_expected(parsed) ==
    IF IsRaise(parsed) /\ parsed.exc \in {"ValueError", "NotImplementedError"}
    THEN None ELSE parsed

\* parse_completions._attempt_parse: every exception becomes None
_attempt_parse(parsed) == IF IsRaise(parsed) THEN None ELSE parsed

parse_completions(json, request_parameters) ==
    LET completions == _attempt_parse(parse_compoptions(json, request_parameters))
    IN IF IsRaise(completions) THEN completions
       ELSE LET diagnostics == _attempt_parse(parse_diagnostics(json, request_parameters))
            IN IF IsRaise(diagnostics) THEN diagnostics
               ELSE CompletionResponse(completions, diagnostics)

(***************************************************************************)
(* lib/schema/completions.py: the classifier.                              *)
(***************************************************************************)
SHORTDESC_UNKNOWN == "?"
SHORTDESC_KEYWORD == "keywd"
SHORTDESC_IDENTIFIER == "ident"
SHORTDESC_FUNCTION == "fn"
SHORTDESC_ATTRIBUTE == "attr"
SHORTDESC_MODULE == "mod"
SHORTDESC_MACRO == "macro"
SHORTDESC_TYPE_CLASS == "class"
SHORTDESC_TYPE_STRING == "str"
SHORTDESC_TYPE_NUMBER == "num"

\* a _shortdesc_common that compares the kind as it is spelled
_shortdesc_common_case_sensitive(menu_info, kind) ==
    IF menu_info.t \notin {"none", "str"} THEN Raise("AssertionError")
    ELSE IF ~Truthy(menu_info) /\ ~Truthy(kind) THEN Str(SHORTDESC_UNKNOWN)
    ELSE IF Truthy(menu_info) /\ menu_info.s = "[ID]" THEN Str(SHORTDESC_IDENTIFIER)
    ELSE IF Truthy(kind) /\ kind.s = "class" THEN Str(SHORTDESC_TYPE_CLASS)
    ELSE IF Truthy(kind) /\ kind.s = "macro" THEN Str(SHORTDESC_MACRO)
    ELSE None

_shortdesc_common(menu_info, kind) ==
    IF menu_info.t \notin {"none", "str"} THEN Raise("AssertionError")
    ELSE IF ~Truthy(menu_info) /\ ~Truthy(kind) THEN Str(SHORTDESC_UNKNOWN)
    ELSE IF Truthy(menu_info) /\ menu_info.s = "[ID]" THEN Str(SHORTDESC_IDENTIFIER)
    ELSE IF Truthy(kind) /\ lower(kind.s) = "class" THEN Str(SHORTDESC_TYPE_CLASS)
    ELSE IF Truthy(kind) /\ lower(kind.s) = "macro" THEN Str(SHORTDESC_MACRO)
    ELSE None

_shortdesc_cpp(menu_info, kind) ==
    IF ~Truthy(kind) THEN Str("[ID]") ELSE Str(lower(kind.s))

_shortdesc_python(menu_info, kind) ==
    IF menu_info.t # "str" THEN Raise("AssertionError")
    ELSE IF contains(menu_info.s, " = ") \/ startswith(menu_info.s, "instance")
         THEN Str(SHORTDESC_ATTRIBUTE)
    ELSE IF startswith(menu_info.s, "keyword") THEN Str(SHORTDESC_KEYWORD)
    ELSE IF startswith(menu_info.s, "def") THEN Str(SHORTDESC_FUNCTION)
    ELSE IF startswith(menu_info.s, "module") THEN Str(SHORTDESC_MODULE)
    ELSE IF startswith(menu_info.s, "class") THEN Str(SHORTDESC_TYPE_CLASS)
    ELSE None

_shortdesc_javascript(menu_info, kind) ==
    IF menu_info.t # "str" THEN Raise("AssertionError")
    ELSE IF menu_info.s = "?" THEN Str(SHORTDESC_UNKNOWN)
    ELSE IF startswith(menu_info.s, "fn") THEN Str(SHORTDESC_FUNCTION)
    ELSE IF menu_info.s = "string" THEN Str(SHORTDESC_TYPE_STRING)
    ELSE IF menu_info.s = "number" THEN Str(SHORTDESC_TYPE_NUMBER)
    ELSE None

\* CompletionOption.shortdesc: the shortdesc_handlers dict
shortdesc_handler(file_type, menu_info, kind) ==
    CASE file_type = "cpp" -> _shortdesc_cpp(menu_info, kind)
      [] file_type = "python" -> _shortdesc_python(menu_info, kind)
      [] file_type = "javascript" -> _shortdesc_javascript(menu_info, kind)

\* CompletionOption._has_file_type
_has_file_type(self, file_type) ==
    IF ~Truthy(self.file_types) THEN FALSE
    ELSE \E i \in 1..Len(self.file_types.l) : self.file_types.l[i] = Str(file_type)

RECURSIVE shortdesc_loop(_, _)
\* CompletionOption.shortdesc: the loop over the handlers, in the order the
\* dict yields them; the first verdict (or exception) ends it
shortdesc_loop(self, items) ==
    IF Len(items) = 0 THEN self.menu_info
    ELSE IF _has_file_type(self, Head(items))
         THEN LET shortdesc == shortdesc_handler(Head(items), self.menu_info, self.kind)
              IN IF ~IsNone(shortdesc) THEN shortdesc
                 ELSE shortdesc_loop(self, Tail(items))
    ELSE shortdesc_loop(self, Tail(items))

\* CompletionOption.shortdesc; `items` is the iteration order of the handlers
\* dict, which the language leaves open on the interpreters the plugin runs on
shortdesc(self, items) ==
    LET common == _shortdesc_common(self.menu_info, self.kind)
    IN IF ~IsNone(common) THEN common ELSE shortdesc_loop(self, items)

NoNewline(s) == \A i \in 1..Len(s) : CharAt(s, i) # "\n"

\* re.match(r".*\(.*\)", menu_text) is not None
is_func(menu_text) ==
    \E i \in 1..Len(menu_text) : \E j \in (i + 1)..Len(menu_text) :
        /\ CharAt(menu_text, i) = "("
        /\ CharAt(menu_text, j) = ")"
        /\ NoNewline(Upto(menu_text, j))

\* the places (i, j) of "(" and ")" at which r".*\((.+)\)" can match
ParamSpans(menu_text) ==
    {ij \in (1..Len(menu_text)) \X (1..Len(menu_text)) :
        /\ ij[2] >= ij[1] + 2
        /\ CharAt(menu_text, ij[1]) = "("
        /\ CharAt(menu_text, ij[2]) = ")"
        /\ NoNewline(Upto(menu_text, ij[2]))}

\* re.match(r".*\((.+)\)", menu_text).groups()[0], None without a match: both
\* quantifiers are greedy, so the last "(" that can match and then the last ")"
match_group(menu_text) ==
    IF ParamSpans(menu_text) = {} THEN None
    ELSE LET ij == CHOOSE a \in ParamSpans(menu_text) :
                       \A b \in ParamSpans(menu_text) :
                           \/ b[1] < a[1]
                           \/ b[1] = a[1] /\ b[2] <= a[2]
         IN Str(SubSeq(menu_text, ij[1] + 1, ij[2] - 1))

\* CompletionOption.text: the placeholder of each parameter, count from 1
param_list(params) ==
    [i \in 1..Len(params) |-> "${" \o str_int(i) \o ":" \o strip(params[i]) \o "}"]

\* CompletionOption.text
text(self) ==
    LET func == Truthy(self.menu_text) /\ is_func(self.menu_text.s)
        match == IF Truthy(self.menu_text) THEN match_group(self.menu_text.s) ELSE None
        placeholders == IF IsNone(match) THEN <<>> ELSE param_list(split(match.s, ","))
    IN IF ~Truthy(self.insertion_text) THEN Str("")
       ELSE IF func
            THEN Str(self.insertion_text.s \o "(" \o join(", ", placeholders) \o ")")
       ELSE Str(self.insertion_text.s)

(***************************************************************************)
(* lib/util/fs.py: resolve_binary_path.  The platform is os.name, the      *)
(* environment is the PATH variable (None when unset) and the file system  *)
(* is the set of paths that are plain files.                               *)
(***************************************************************************)
\* os.sep
sep(os_name) == IF os_name = "nt" THEN "\\" ELSE "/"

\* os.pathsep
pathsep(os_name) == IF os_name = "nt" THEN ";" ELSE ":"

\* os.curdir
curdir == "."

\* ntpath.splitdrive(path)[1] for a drive-letter path
without_drive(path) ==
    IF Len(path) >= 2 /\ CharAt(path, 2) = ":" THEN From(path, 2) ELSE path

\* os.path.isabs
isabs(os_name, path) ==
    IF os_name = "nt"
    THEN Len(without_drive(path)) > 0 /\ CharAt(without_drive(path), 1) \in {"\\", "/"}
    ELSE startswith(path, "/")

\* os.path.join(a, b) for a relative b without a drive
path_join(os_name, a, b) ==
    IF a = "" THEN b
    ELSE IF os_name = "nt" /\ CharAt(a, Len(a)) \in {"\\", "/", ":"} THEN a \o b
    ELSE IF os_name # "nt" /\ CharAt(a, Len(a)) = "/" THEN a \o b
    ELSE a \o sep(os_name) \o b

\* an isfile that accepts every path without looking at the file system
isfile_unchecked(files, path) ==
    IF path.t # "str" THEN Raise("TypeError") ELSE Bool(TRUE)

\* os.path.isfile: os.stat(None) raises TypeError, which isfile does not catch
isfile(files, path) ==
    IF path.t # "str" THEN Raise("TypeError") ELSE Bool(path.s \in files)

win_exts == <<".exe", ".cmd", ".bat">>

\* resolve_binary_path: workingdir, os.curdir when None
resolved_workingdir(workingdir) == IF IsNone(workingdir) THEN curdir ELSE workingdir.s

\* resolve_binary_path: pathdirs, the PATH entries when none are given
resolved_pathdirs(os_name, pathdirs, rawpath) ==
    IF Len(pathdirs) # 0 THEN pathdirs
    ELSE IF IsNone(rawpath) THEN <<>>
    ELSE split(rawpath.s, pathsep(os_name))

\* generate_binpaths: what one directory contributes
binpaths_of(os_name, pathdir, binpath) ==
    <<Str(path_join(os_name, pathdir, binpath))>>
        \o (IF os_name = "nt"
            THEN [i \in 1..Len(win_exts) |->
                    Str(path_join(os_name, pathdir, binpath \o win_exts[i]))]
            ELSE <<>>)

RECURSIVE binpaths_of_all(_, _, _)
binpaths_of_all(os_name, dirs, binpath) ==
    IF Len(dirs) = 0 THEN <<>>
    ELSE binpaths_of(os_name, Head(dirs), binpath)
            \o binpaths_of_all(os_name, Tail(dirs), binpath)

\* a generate_binpaths that yields every bare candidate before the suffixed ones
generate_binpaths_suffixes_last(os_name, binpath, workingdir, pathdirs) ==
    LET dirs == <<workingdir>> \o pathdirs
    IN [i \in 1..Len(dirs) |-> Str(path_join(os_name, dirs[i], binpath))]
          \o (IF os_name = "nt"
              THEN [k \in 1..(Len(dirs) * Len(win_exts)) |->
                      Str(path_join(os_name, dirs[((k - 1) \div Len(win_exts)) + 1],
                                    binpath \o win_exts[((k - 1) % Len(win_exts)) + 1]))]
              ELSE <<>>)
          \o <<None>>

\* generate_binpaths: everything the generator yields, in order, the closing
\* None included; the consumer takes the items one at a time
generate_binpaths(os_name, binpath, workingdir, pathdirs) ==
    binpaths_of_all(os_name, <<workingdir>> \o pathdirs, binpath) \o <<None>>

(***************************************************************************)
(* lib/util/fs.py: path components and the common ancestor.                *)
(***************************************************************************)
\* os.altsep: None where the platform has one separator
altsep(os_name) == IF os_name = "nt" THEN Str("/") ELSE None

\* _iter_components: the position the scan splits at, -1 when there is none
split_position(path, primary_dirsep, secondary_dirsep) ==
    LET primary_position == find(path, primary_dirsep)
        secondary_position == find(path, secondary_dirsep)
    IN IF primary_position >= 0 /\ secondary_position >= 0
       THEN IF primary_position > secondary_position
            THEN secondary_position ELSE primary_position
       ELSE IF primary_position >= 0 THEN primary_position
       ELSE IF secondary_position >= 0 THEN secondary_position
       ELSE -1

RECURSIVE _iter_components(_, _, _)
\* _iter_components: what the generator yields from path onwards
_iter_components(path, primary_dirsep, secondary_dirsep) ==
    IF path = "" THEN <<>>
    ELSE LET pos == split_position(path, primary_dirsep, secondary_dirsep)
         IN IF pos >= 0
            THEN <<Upto(path, pos)>>
                    \o _iter_components(From(path, pos + 1),
                                        primary_dirsep, secondary_dirsep)
            ELSE <<path>>

_split_path_components(os_name, path) ==
    IF ~Truthy(altsep(os_name)) THEN split(path, sep(os_name))
    ELSE _iter_components(path, sep(os_name), altsep(os_name).s)

\* zip(*path_components): the number of tuples it yields
zip_length(path_components) ==
    CHOOSE n \in {Len(path_components[i]) : i \in 1..Len(path_components)} :
        \A i \in 1..Len(path_components) : n <= Len(path_components[i])

\* a loop over path_traverser that does not stop at a mismatch
common_path_components_no_break(path_components) ==
    SubSeq(path_components[1], 1, zip_length(path_components))

\* the loop over path_traverser: the components recorded before the first
\* mismatch
common_path_components(path_components) ==
    LET all_equal(k) == \A i \in 1..Len(path_components) :
                            path_components[i][k] = path_components[1][k]
        n == CHOOSE m \in 0..zip_length(path_components) :
                /\ \A k \in 1..m : all_equal(k)
                /\ m = zip_length(path_components) \/ ~all_equal(m + 1)
    IN SubSeq(path_components[1], 1, n)

RECURSIVE join_components(_, _, _)
\* os.path.join(acc, *components) for components that hold no separator
join_components(os_name, acc, components) ==
    IF Len(components) = 0 THEN acc
    ELSE join_components(os_name, path_join(os_name, acc, Head(components)),
                         Tail(components))

_commonpath_polyfill(os_name, paths) ==
    IF Len(paths) = 0 THEN Raise("ValueError")
    ELSE IF Len(paths) = 1 THEN Str(paths[1])
    ELSE LET path_components == [i \in 1..Len(paths) |->
                                    _split_path_components(os_name, paths[i])]
             common == common_path_components(path_components)
         IN IF Len(common) = 0 THEN Raise("ValueError")
            ELSE Str(join_components(os_name, Head(common) \o sep(os_name),
                                     Tail(common)))

get_common_ancestor(os_name, paths, default) ==
    LET common_path == _commonpath_polyfill(os_name, paths)
    IN IF IsRaise(common_path) THEN default ELSE common_path

(***************************************************************************)
(* lib/util/fs.py: get_base_name and resolve_abspath, with os.path.split   *)
(* and os.path.join of the platform.                                       *)
(***************************************************************************)
\* the separators os.path.split looks for
seps(os_name) == IF os_name = "nt" THEN {"\\", "/"} ELSE {"/"}

\* the number of characters up to and including the last separator, 0 when
\* there is none
after_last_sep(os_name, p) ==
    IF \E i \in 1..Len(p) : CharAt(p, i) \in seps(os_name)
    THEN CHOOSE i \in 1..Len(p) :
            /\ CharAt(p, i) \in seps(os_name)
            /\ \A j \in (i + 1)..Len(p) : CharAt(p, j) \notin seps(os_name)
    ELSE 0

RECURSIVE rstrip_seps(_, _)
\* head.rstrip(seps)
rstrip_seps(os_name, head) ==
    IF Len(head) > 0 /\ CharAt(head, Len(head)) \in seps(os_name)
    THEN rstrip_seps(os_name, Upto(head, Len(head) - 1))
    ELSE head

\* ntpath.splitdrive(path)[0] for a drive-letter path, empty on posix
drive_of(os_name, path) ==
    IF os_name = "nt" /\ Len(path) >= 2 /\ CharAt(path, 2) = ":" THEN Upto(path, 2) ELSE ""

\* os.path.split: <<head, tail>>; the head loses its trailing separators
\* unless it consists of separators only
os_path_split(os_name, path) ==
    LET d == drive_of(os_name, path)
        p == From(path, Len(d))
        i == after_last_sep(os_name, p)
        head == Upto(p, i)
        tail == From(p, i)
        stripped == IF rstrip_seps(os_name, head) = "" THEN head
                    ELSE rstrip_seps(os_name, head)
    IN <<d \o stripped, tail>>

get_base_name(os_name, path) ==
    IF path.t # "str" THEN Raise("AssertionError")
    ELSE LET first == os_path_split(os_name, path.s)
         IN IF first[2] # "" THEN Str(first[2])
            ELSE IF first[1] # path.s THEN Str(os_path_split(os_name, first[1])[2])
            ELSE Str(first[2])

\* os.path.join(a, b): an absolute b, or on nt a b of another drive, replaces
\* a; anything else is appended to a
os_path_join(os_name, a, b) ==
    IF os_name # "nt"
    THEN IF startswith(b, "/") THEN b ELSE path_join(os_name, a, b)
    ELSE LET a_drive == drive_of(os_name, a)
             a_path == From(a, Len(a_drive))
             b_drive == drive_of(os_name, b)
             b_path == From(b, Len(b_drive))
         IN IF b_path # "" /\ CharAt(b_path, 1) \in seps(os_name)
            THEN (IF b_drive # "" \/ a_drive = "" THEN b_drive ELSE a_drive) \o b_path
            ELSE IF b_drive # "" /\ lower(b_drive) # lower(a_drive) THEN b
            ELSE (IF b_drive # "" THEN b_drive ELSE a_drive)
                    \o (IF a_path # "" /\ CharAt(a_path, Len(a_path)) \notin seps(os_name)
                        THEN a_path \o sep(os_name) ELSE a_path)
                    \o b_path

\* os.getcwd(): the working directory of the process, an absolute path
getcwd(os_name) == IF os_name = "nt" THEN "C:\\cwd" ELSE "/cwd"

resolve_abspath(os_name, path, start) ==
    IF path.t # "str" THEN Raise("AssertionError")
    ELSE IF isabs(os_name, path.s) THEN path
    ELSE LET used_start == IF IsNone(start) THEN Str(getcwd(os_name)) ELSE start
         IN IF used_start.t # "str" THEN Raise("AssertionError")
            ELSE Str(os_path_join(os_name, path.s, used_start.s))

(***************************************************************************)
(* Inputs of the parser.                                                   *)
(***************************************************************************)
NodeFoo == Dict([insertion_text |-> Str("foo"), menu_text |-> Str("foo(a, b)"),
                 extra_menu_info |-> Str("def foo")])
NodeBar == Dict([insertion_text |-> Str("bar"), kind |-> Str("Class")])
NodeEmpty == Dict([k \in {} |-> None])

CompletionNodes == {NodeFoo, NodeBar, NodeEmpty}

ErrRuntime == Dict([exception |-> Dict([TYPE |-> Str("RuntimeError")]),
                    message |-> Str("no compile flags"), traceback |-> Str("tb")])
ErrExtraConf == Dict([exception |-> Dict([TYPE |-> Str("UnknownExtraConf")]),
                      message |-> Str("Found /tmp/.ycm_extra_conf.py. Load?")])
ErrNoException == Dict([message |-> Str("m")])
ErrEmptyType == Dict([exception |-> Dict([TYPE |-> Str("")])])
ErrNoType == Dict([exception |-> Dict([message |-> Str("x")])])
ErrBadException == Dict([exception |-> Str("boom")])

ErrorNodes == {ErrRuntime, ErrExtraConf, ErrNoException, ErrEmptyType, ErrNoType,
               ErrBadException}

CompletionsFields ==
    {Absent, Str("oops"), List(<<Str("x")>>)}
        \cup {List(l) : l \in SeqsUpTo(CompletionNodes, MaxCompletions)}

ErrorsFields ==
    {Absent, Num(0), List(<<Num(1)>>)}
        \cup {List(l) : l \in SeqsUpTo(ErrorNodes, MaxErrors)}

StartColumnFields == {Absent, Num(1)}

MkReply(c, e, s) ==
    LET keys == (IF c.t = "absent" THEN {} ELSE {"completions"})
                    \cup (IF e.t = "absent" THEN {} ELSE {"errors"})
                    \cup (IF s.t = "absent" THEN {} ELSE {"completion_start_column"})
    IN Dict([k \in keys |->
                CASE k = "completions" -> c
                  [] k = "errors" -> e
                  [] OTHER -> s])

Replies == {MkReply(c, e, s) : c \in CompletionsFields, e \in ErrorsFields,
                               s \in StartColumnFields}

Raws == Replies \cup {Str(d) : d \in JsonDocs} \cup {Bytes(d) : d \in JsonDocs}
            \cup {None, Num(5), List(<<>>)}

Contexts == {None, RequestParameters(None), RequestParameters(List(<<Str("python")>>)),
             RequestParameters(Str("python")), Str("python")}

(***************************************************************************)
(* Inputs of the classifier and of text().                                 *)
(***************************************************************************)
MenuInfos == {Absent, Str(""), Str("[ID]"), Str("def foo"), Str("x = 1"),
              Str("instance Foo"), Str("keyword"), Str("module os"), Str("class Foo"),
              Str("?"), Str("fn(a: number)"), Str("string"), Str("number"), Str("int"),
              Str("Def foo")}

Kinds == {Absent, Str(""), Str("Class"), Str("MACRO"), Str("class"), Str("FUNCTION"),
          Str("Variable")}

FileTypes == {None, List(<<>>), List(<<Str("cpp")>>), List(<<Str("python")>>),
              List(<<Str("javascript")>>), List(<<Str("go")>>),
              List(<<Str("cpp"), Str("python")>>),
              List(<<Str("javascript"), Str("python")>>)}

HandlerOrders == {<<"cpp", "python", "javascript">>, <<"cpp", "javascript", "python">>,
                  <<"python", "cpp", "javascript">>, <<"python", "javascript", "cpp">>,
                  <<"javascript", "cpp", "python">>, <<"javascript", "python", "cpp">>}

InsertionTexts == {Absent, Str(""), Str("foo")}

MenuTexts == {Absent, Str(""), Str("foo"), Str("foo()"), Str("foo(a)"), Str("foo(a, b)"),
              Str("foo( a ,b )"), Str("bar(x, y, z)"), Str("foo(a, bar(b))"),
              Str("foo(a, b"), Str("foo)a("), Str("foo(a) const")}

\* a completion node with the given fields, Absent ones left out
MkNode(extra_menu_info, kind, insertion_text, menu_text) ==
    LET keys == (IF extra_menu_info.t = "absent" THEN {} ELSE {"extra_menu_info"})
                    \cup (IF kind.t = "absent" THEN {} ELSE {"kind"})
                    \cup (IF insertion_text.t = "absent" THEN {} ELSE {"insertion_text"})
                    \cup (IF menu_text.t = "absent" THEN {} ELSE {"menu_text"})
    IN Dict([k \in keys |->
                CASE k = "extra_menu_info" -> extra_menu_info
                  [] k = "kind" -> kind
                  [] k = "insertion_text" -> insertion_text
                  [] OTHER -> menu_text])

(***************************************************************************)
(* Inputs of resolve_binary_path.                                          *)
(***************************************************************************)
MaxFiles == 2

OsNames == {"posix", "nt"}
BinPaths == {"python", "/usr/bin/python"}
WorkingDirs == {None, Str("/w")}
PathDirs == {"/a", "/b"}
RawPaths == {None, Str("/b:/a")}

FilePool == {"./python", "/w/python", "/a/python", "/b/python", "/w\\python.exe",
             "/a\\python.cmd", "/a\\python.bat", "/b\\python"}

FileSystems == {files \in SUBSET FilePool : Cardinality(files) <= MaxFiles}

(***************************************************************************)
(* Inputs of the diagnostic predicates.                                    *)
(***************************************************************************)
ExceptionTypes == {None, Str(""), Str("RuntimeError"), Str("runtimeerror"),
                   Str("UnknownExtraConf"), Str("ValueError")}
Messages == {None, Str(""), Str("no compile flags"), Str("No Compile Flags"),
             Str("clang: no compile flags for a.c"), Str("no compile  flags"),
             Str("boom")}

(***************************************************************************)
(* Inputs of the path utilities.                                           *)
(***************************************************************************)
MaxPaths == 3

PathPool == {"/usr", "/lib", "/usr/lib", "/usr/bin", "usr/lib", "usr/bin", "lib",
             "a//b", "a//c", "usr/lib/", "C:\\usr/lib", "C:\\usr\\bin", ""}
Defaults == {None, Str("default")}

NamePool == {None, Str(""), Str("/"), Str("a"), Str("a/"), Str("a//"), Str("/a"),
             Str("/a/"), Str("a/b"), Str("a/b/"), Str("/a/b.c"), Str("C:\\"),
             Str("C:"), Str("C:\\a"), Str("C:\\a\\b\\"), Str("a\\b/")}

RelPathPool == {None, Str(""), Str("b"), Str("b/c"), Str("b/"), Str("/a"), Str("/a/b"),
                Str("C:\\a"), Str("C:b"), Str(".")}
StartPool == {None, Str("/s"), Str("/s/"), Str("/s/t"), Str("s"), Str("C:\\s"), Num(1)}

MaxPathLen == 3

PathChars == {"a", "/", "\\"}

RECURSIVE PathsOfLen(_)
\* every path string of n characters
PathsOfLen(n) ==
    IF n = 0 THEN {""} ELSE {c \o p : c \in PathChars, p \in PathsOfLen(n - 1)}

SplitPool == UNION {PathsOfLen(n) : n \in 0..MaxPathLen}

(***************************************************************************)
(* The state machine.                                                      *)
(***************************************************************************)
Init ==
    /\ pc = "idle"
    /\ op = "none"
    /\ args = None
    /\ result = None
    /\ gen = 0
    /\ probed = <<>>
    /\ current_path = ""

ParseCompletions ==
    /\ pc = "idle"
    /\ \E json \in Raws, request_parameters \in Contexts :
          /\ args' = [json |-> json, request_parameters |-> request_parameters]
          /\ result' = parse_completions(json, request_parameters)
    /\ op' = "parse_completions"
    /\ pc' = "done"
    /\ UNCHANGED <<gen, probed, current_path>>

ParseDiagnostics ==
    /\ pc = "idle"
    /\ \E json \in Raws, request_parameters \in Contexts :
          /\ args' = [json |-> json, request_parameters |-> request_parameters]
          /\ result' = parse_diagnostics(json, request_parameters)
    /\ op' = "parse_diagnostics"
    /\ pc' = "done"
    /\ UNCHANGED <<gen, probed, current_path>>

\* one entry is parsed from a node and classified
Shortdesc ==
    /\ pc = "idle"
    /\ \E extra_menu_info \in MenuInfos, kind \in Kinds, file_types \in FileTypes,
          items \in HandlerOrders :
          LET node == MkNode(extra_menu_info, kind, Str("foo"), Absent)
          IN /\ args' = [node |-> node, file_types |-> file_types, items |-> items]
             /\ result' = shortdesc(_parse_completion_option(node, file_types), items)
    /\ op' = "shortdesc"
    /\ pc' = "done"
    /\ UNCHANGED <<gen, probed, current_path>>

\* one entry is parsed from a node and its insertion text is asked for
Text ==
    /\ pc = "idle"
    /\ \E insertion_text \in InsertionTexts, menu_text \in MenuTexts :
          LET node == MkNode(Absent, Absent, insertion_text, menu_text)
          IN /\ args' = [node |-> node]
             /\ result' = text(_parse_completion_option(node, None))
    /\ op' = "text"
    /\ pc' = "done"
    /\ UNCHANGED <<gen, probed, current_path>>

\* the candidates of the call in progress
BinpathsOfCall ==
    generate_binpaths(args.os_name, args.binpath,
                      resolved_workingdir(args.workingdir),
                      resolved_pathdirs(args.os_name, args.pathdirs, args.rawpath))

\* resolve_binary_path up to the first next(found_files): an absolute binpath
\* is returned as it is, anything else starts the search
ResolveBinaryPath ==
    /\ pc = "idle"
    /\ \E os_name \in OsNames, binpath \in BinPaths, workingdir \in WorkingDirs,
          pathdirs \in SeqsUpTo(PathDirs, MaxDirs), rawpath \in RawPaths,
          files \in FileSystems :
          /\ args' = [os_name |-> os_name, binpath |-> binpath, workingdir |-> workingdir,
                      pathdirs |-> pathdirs, rawpath |-> rawpath, files |-> files]
          /\ IF isabs(os_name, binpath)
             THEN pc' = "done" /\ result' = Str(binpath) /\ gen' = 0
             ELSE pc' = "probing" /\ result' = None /\ gen' = 1
    /\ op' = "resolve_binary_path"
    /\ probed' = <<>>
    /\ UNCHANGED current_path

\* one step of filter(os.path.isfile, generate_binpaths()): the generator's
\* next item is handed to isfile; a file ends the search, and so does the
\* exception isfile raises on the closing None
Probe ==
    /\ pc = "probing"
    /\ LET candidate == BinpathsOfCall[gen]
           found == isfile(args.files, candidate)
       IN /\ probed' = Append(probed, candidate)
          /\ IF IsRaise(found) THEN pc' = "done" /\ result' = found /\ gen' = gen
             ELSE IF Truthy(found) THEN pc' = "done" /\ result' = candidate /\ gen' = gen
             ELSE pc' = "probing" /\ result' = result /\ gen' = gen + 1
    /\ UNCHANGED <<op, args, current_path>>

IsCompileFlagMissingError ==
    /\ pc = "idle"
    /\ \E exception_type \in ExceptionTypes, message \in Messages :
          LET self == DiagnosticError(exception_type, message, None, None)
          IN /\ args' = [self |-> self]
             /\ result' = is_compile_flag_missing_error(self)
    /\ op' = "is_compile_flag_missing_error"
    /\ pc' = "done"
    /\ UNCHANGED <<gen, probed, current_path>>

\* _split_path_components up to the first iteration of the scan: with one
\* separator the path is split at once, with two the scan starts on a copy
\* of the path
SplitPathComponents ==
    /\ pc = "idle"
    /\ \E os_name \in OsNames, path \in SplitPool :
          /\ args' = [os_name |-> os_name, path |-> path]
          /\ IF ~Truthy(altsep(os_name))
             THEN /\ pc' = "done"
                  /\ result' = [t |-> "components", l |-> split(path, sep(os_name))]
                  /\ current_path' = ""
             ELSE /\ pc' = "scanning"
                  /\ result' = [t |-> "components", l |-> <<>>]
                  /\ current_path' = path
    /\ op' = "_split_path_components"
    /\ UNCHANGED <<gen, probed>>

\* one test of `while current_path` and, when it passes, one iteration of
\* the loop of _iter_components: the head is yielded and the scan goes on
\* with the tail
IterComponents ==
    /\ pc = "scanning"
    /\ IF current_path = ""
       THEN pc' = "done" /\ UNCHANGED <<result, current_path>>
       ELSE LET pos == split_position(current_path, sep(args.os_name),
                                      altsep(args.os_name).s)
            IN /\ pc' = "scanning"
               /\ IF pos >= 0
                  THEN /\ result' = [result EXCEPT !.l = Append(@, Upto(current_path, pos))]
                       /\ current_path' = From(current_path, pos + 1)
                  ELSE /\ result' = [result EXCEPT !.l = Append(@, current_path)]
                       /\ current_path' = ""
    /\ UNCHANGED <<op, args, gen, probed>>

GetBaseName ==
    /\ pc = "idle"
    /\ \E os_name \in OsNames, path \in NamePool :
          /\ args' = [os_name |-> os_name, path |-> path]
          /\ result' = get_base_name(os_name, path)
    /\ op' = "get_base_name"
    /\ pc' = "done"
    /\ UNCHANGED <<gen, probed, current_path>>

ResolveAbspath ==
    /\ pc = "idle"
    /\ \E os_name \in OsNames, path \in RelPathPool, start \in StartPool :
          /\ args' = [os_name |-> os_name, path |-> path, start |-> start]
          /\ result' = resolve_abspath(os_name, path, start)
    /\ op' = "resolve_abspath"
    /\ pc' = "done"
    /\ UNCHANGED <<gen, probed, current_path>>

CommonpathPolyfill ==
    /\ pc = "idle"
    /\ \E os_name \in OsNames, paths \in SeqsUpTo(PathPool, MaxPaths) :
          /\ args' = [os_name |-> os_name, paths |-> paths]
          /\ result' = _commonpath_polyfill(os_name, paths)
    /\ op' = "_commonpath_polyfill"
    /\ pc' = "done"
    /\ UNCHANGED <<gen, probed, current_path>>

GetCommonAncestor ==
    /\ pc = "idle"
    /\ \E os_name \in OsNames, paths \in SeqsUpTo(PathPool, MaxPaths),
          default \in Defaults :
          /\ args' = [os_name |-> os_name, paths |-> paths, default |-> default]
          /\ result' = get_common_ancestor(os_name, paths, default)
    /\ op' = "get_common_ancestor"
    /\ pc' = "done"
    /\ UNCHANGED <<gen, probed, current_path>>

\* the call returns to its caller
Return ==
    /\ pc = "done"
    /\ pc' = "idle"
    /\ op' = "none"
    /\ args' = None
    /\ result' = None
    /\ gen' = 0
    /\ probed' = <<>>
    /\ current_path' = ""

Next ==
    \/ ParseCompletions
    \/ ParseDiagnostics
    \/ Shortdesc
    \/ Text
    \/ ResolveBinaryPath
    \/ Probe
    \/ IsCompileFlagMissingError
    \/ SplitPathComponents
    \/ IterComponents
    \/ GetBaseName
    \/ ResolveAbspath
    \/ CommonpathPolyfill
    \/ GetCommonAncestor
    \/ Return

Spec == Init /\ [][Next]_vars

\* the scan is a loop of the running call: it keeps taking steps
FairSpec == Spec /\ WF_vars(IterComponents)

(***************************************************************************)
(* What the claims speak about: the reply a call was given, read from the  *)
(* call's arguments.                                                       *)
(***************************************************************************)
Called(name) == pc = "done" /\ op = name

\* the mapping a raw input stands for, Absent when it is no mapping
ReplyOf(json) ==
    LET decoded == IF json.t = "str" THEN json_parse(json.s)
                   ELSE IF json.t = "bytes" THEN json_parse(json.b)
                   ELSE json
    IN IF decoded.t = "dict" THEN decoded ELSE Absent

HasKey(reply, key) == reply.t = "dict" /\ key \in DOMAIN reply.d

IsSeqOfMappings(v) == v.t = "list" /\ \A i \in 1..Len(v.l) : v.l[i].t = "dict"

HasSeqOfMappings(reply, key) == HasKey(reply, key) /\ IsSeqOfMappings(reply.d[key])

\* the reply's `completions` field is well formed
WellFormedCompletions(reply) == HasSeqOfMappings(reply, "completions")

\* a valid reply: the mapping of the input JSON shape, with well-formed
\* `completions` and the completion_start_column key
ValidReply(reply) ==
    WellFormedCompletions(reply) /\ HasKey(reply, "completion_start_column")

\* a context the parser accepts: none, or request parameters whose file types
\* are none or a list
ContextOk(request_parameters) ==
    \/ request_parameters.t = "none"
    \/ /\ request_parameters.t = "RequestParameters"
       /\ request_parameters.file_types.t \in {"none", "list"}

ContextFileTypes(request_parameters) ==
    IF request_parameters.t = "none" THEN None ELSE request_parameters.file_types

\* C1: parse_completions never raises: whatever the raw input and the context,
\* it returns a CompletionResponse, and a half whose sub-parse raised (for any
\* reason, a missing `completions` field included) is None.
C1_ParseAllNeverRaises ==
    Called("parse_completions") =>
        /\ result.t = "CompletionResponse"
        /\ IsRaise(parse_compoptions(args.json, args.request_parameters))
              => result.completions.t = "none"
        /\ IsRaise(parse_diagnostics(args.json, args.request_parameters))
              => result.diagnostics.t = "none"
        /\ ~HasKey(ReplyOf(args.json), "completions") => result.completions.t = "none"

\* C1 witness: a reply with diagnostics whose completions half failed on an
\* unexpected exception (the KeyError of a missing completion_start_column).
C1_Witness ==
    /\ Called("parse_completions")
    /\ WellFormedCompletions(ReplyOf(args.json))
    /\ ~HasKey(ReplyOf(args.json), "completion_start_column")
    /\ result.completions.t = "none"
    /\ result.diagnostics.t = "Diagnostics"
    /\ result.diagnostics.diagnostics.t = "list"

\* the entry the parser builds from one element of `completions`
EntryOf(node, request_parameters) ==
    CompletionOption(Get(node.d, "extra_menu_info"), Get(node.d, "insertion_text"),
                     Get(node.d, "extra_data"), Get(node.d, "detailed_info"),
                     ContextFileTypes(request_parameters),
                     Get(node.d, "menu_text"), Get(node.d, "kind"))

\* the reply of C2: valid, `completions` non-empty, `errors` omitted, parsed
\* with a context the parser accepts
C2_Case ==
    /\ Called("parse_completions")
    /\ ValidReply(ReplyOf(args.json))
    /\ Len(ReplyOf(args.json).d["completions"].l) > 0
    /\ ~HasKey(ReplyOf(args.json), "errors")
    /\ ContextOk(args.request_parameters)

\* C2: for every valid reply with non-empty `completions` and no `errors` key,
\* parse_completions returns a completions collection of the input's length
\* whose i-th entry is built from the i-th element, and null diagnostics: the
\* diagnostics half fails and the completions half is not affected.
C2_CompletionsInOrder ==
    C2_Case =>
        LET nodes == ReplyOf(args.json).d["completions"].l
        IN /\ result.t = "CompletionResponse"
           /\ result.completions.t = "Completions"
           /\ Len(result.completions.completion_options) = Len(nodes)
           /\ \A i \in 1..Len(nodes) :
                 result.completions.completion_options[i]
                     = EntryOf(nodes[i], args.request_parameters)
           /\ result.completions.start_column
                 = ReplyOf(args.json).d["completion_start_column"]
           /\ result.diagnostics.t = "none"
           /\ IsRaise(parse_diagnostics(args.json, args.request_parameters))

\* C2 witness: two different completions, in the server's order, no errors key.
C2_Witness ==
    /\ C2_Case
    /\ Len(ReplyOf(args.json).d["completions"].l) = 2
    /\ ReplyOf(args.json).d["completions"].l[1] # ReplyOf(args.json).d["completions"].l[2]
    /\ Len(result.completions.completion_options) = 2
    /\ result.completions.completion_options[1].insertion_text.t = "str"
    /\ result.diagnostics.t = "none"

\* the "no diagnostics" result: the Diagnostics wrapper that holds None
NoDiagnostics(r) == r.t = "Diagnostics" /\ r.diagnostics.t = "none"

\* C3: parse_diagnostics on a reply with well-formed `completions` returns the
\* "no diagnostics" result both when `errors` is an empty sequence and when
\* `errors` is absent.
C3_NoDiagnosticsWhenEmptyOrAbsent ==
    ( /\ Called("parse_diagnostics")
      /\ WellFormedCompletions(ReplyOf(args.json))
      /\ ContextOk(args.request_parameters)
      /\ \/ ~HasKey(ReplyOf(args.json), "errors")
         \/ /\ HasSeqOfMappings(ReplyOf(args.json), "errors")
            /\ Len(ReplyOf(args.json).d["errors"].l) = 0 )
    => NoDiagnostics(result)

\* whether an error node carries a non-empty exception.TYPE
HasExceptionType(node) ==
    /\ "exception" \in DOMAIN node.d
    /\ node.d["exception"].t = "dict"
    /\ "TYPE" \in DOMAIN node.d["exception"].d
    /\ Truthy(node.d["exception"].d["TYPE"])

DiagnosticOf(node) ==
    DiagnosticError(node.d["exception"].d["TYPE"], Get(node.d, "message"),
                    Get(node.d, "traceback"), None)

RECURSIVE TaggedDiagnostics(_)
\* one diagnostic for each node that carries the tag, in node order
TaggedDiagnostics(nodes) ==
    IF Len(nodes) = 0 THEN <<>>
    ELSE (IF HasExceptionType(Head(nodes)) THEN <<DiagnosticOf(Head(nodes))>> ELSE <<>>)
            \o TaggedDiagnostics(Tail(nodes))

\* C4: for a reply with a non-empty `errors` sequence, parse_diagnostics
\* returns exactly one diagnostic for each node that carries a non-empty
\* exception.TYPE, in node order; every entry has an exception type, and a
\* node without the tag is skipped.  (The call raises only when the reply's
\* `completions` or the context is rejected.)
C4_OneDiagnosticPerTaggedNode ==
    ( /\ Called("parse_diagnostics")
      /\ HasSeqOfMappings(ReplyOf(args.json), "errors")
      /\ Len(ReplyOf(args.json).d["errors"].l) > 0 )
    => IF WellFormedCompletions(ReplyOf(args.json)) /\ ContextOk(args.request_parameters)
       THEN /\ result.t = "Diagnostics"
            /\ result.diagnostics.t = "list"
            /\ result.diagnostics.l = TaggedDiagnostics(ReplyOf(args.json).d["errors"].l)
            /\ \A i \in 1..Len(result.diagnostics.l) :
                  Truthy(result.diagnostics.l[i].exception_type)
       ELSE IsRaise(result)

\* C4 witness: a tagged node parsed after an untagged one was skipped
C4_Witness ==
    /\ Called("parse_diagnostics")
    /\ result.t = "Diagnostics"
    /\ result.diagnostics.t = "list"
    /\ Len(args.json.d["errors"].l) = 2
    /\ ~HasExceptionType(args.json.d["errors"].l[1])
    /\ HasExceptionType(args.json.d["errors"].l[2])
    /\ Len(result.diagnostics.l) = 1
    /\ result.diagnostics.l[1].exception_type = Str("UnknownExtraConf")

(***************************************************************************)
(* The classifier's claims.  Letter case is decided here from the two      *)
(* alphabets, not by lower().                                              *)
(***************************************************************************)
LowercaseLetters == "abcdefghijklmnopqrstuvwxyz"
UppercaseLetters == "ABCDEFGHIJKLMNOPQRSTUVWXYZ"

SameLetter(c, d) ==
    \/ c = d
    \/ \E i \in 1..Len(LowercaseLetters) :
          {c, d} = {CharAt(LowercaseLetters, i), CharAt(UppercaseLetters, i)}

EqualsIgnoringCase(s, w) ==
    Len(s) = Len(w) /\ \A i \in 1..Len(s) : SameLetter(CharAt(s, i), CharAt(w, i))

HasNoUppercase(s) ==
    \A i \in 1..Len(s) : \A k \in 1..Len(UppercaseLetters) :
        CharAt(s, i) # CharAt(UppercaseLetters, k)

\* the classified entry's descriptive text and kind
MenuInfoOf == Get(args.node.d, "extra_menu_info")
KindOf == Get(args.node.d, "kind")

IsStr(v, s) == v.t = "str" /\ v.s = s

NothingToClassify == ~Truthy(MenuInfoOf) /\ ~Truthy(KindOf)
IsIdentifierMarker == IsStr(MenuInfoOf, "[ID]")
KindIs(word) == Truthy(KindOf) /\ EqualsIgnoringCase(KindOf.s, word)

\* C5: the common tier.  With neither descriptive text nor kind the result is
\* "?"; with the descriptive text "[ID]" it is the identifier category;
\* otherwise a kind that is "class" or "macro" in any letter case gives the
\* class or macro category.  The language tags play no part.
C5_CommonTier ==
    Called("shortdesc") =>
        /\ NothingToClassify => IsStr(result, "?")
        /\ IsIdentifierMarker => IsStr(result, "ident")
        /\ (~NothingToClassify /\ ~IsIdentifierMarker /\ KindIs("class"))
              => IsStr(result, "class")
        /\ (~NothingToClassify /\ ~IsIdentifierMarker /\ KindIs("macro"))
              => IsStr(result, "macro")

\* C5 witness: a python entry "def foo" of kind "Class" is a class, not a function
C5_Witness ==
    /\ Called("shortdesc")
    /\ IsStr(MenuInfoOf, "def foo")
    /\ IsStr(KindOf, "Class")
    /\ args.file_types.t = "list"
    /\ Len(args.file_types.l) = 1
    /\ args.file_types.l[1] = Str("python")
    /\ IsStr(result, "class")

CommonTierHasNoVerdict ==
    ~NothingToClassify /\ ~IsIdentifierMarker /\ ~KindIs("class") /\ ~KindIs("macro")

HasOneTag == args.file_types.t = "list" /\ Len(args.file_types.l) = 1
TheTag == args.file_types.l[1].s

\* the descriptive text the heuristics look at; an absent text has no content
TextIs(s) == IsStr(MenuInfoOf, s)
TextStartsWith(p) == MenuInfoOf.t = "str" /\ startswith(MenuInfoOf.s, p)
TextContains(p) == MenuInfoOf.t = "str" /\ contains(MenuInfoOf.s, p)

\* the result is the raw descriptive text
IsRawText == result.t = MenuInfoOf.t /\ (result.t = "str" => result.s = MenuInfoOf.s)

PythonVerdict ==
    IF TextContains(" = ") \/ TextStartsWith("instance") THEN IsStr(result, "attr")
    ELSE IF TextStartsWith("keyword") THEN IsStr(result, "keywd")
    ELSE IF TextStartsWith("def") THEN IsStr(result, "fn")
    ELSE IF TextStartsWith("module") THEN IsStr(result, "mod")
    ELSE IF TextStartsWith("class") THEN IsStr(result, "class")
    ELSE IsRawText

JavascriptVerdict ==
    IF TextIs("?") THEN IsStr(result, "?")
    ELSE IF TextStartsWith("fn") THEN IsStr(result, "fn")
    ELSE IF TextIs("string") THEN IsStr(result, "str")
    ELSE IF TextIs("number") THEN IsStr(result, "num")
    ELSE IsRawText

CppVerdict ==
    IF Truthy(KindOf)
    THEN result.t = "str" /\ EqualsIgnoringCase(result.s, KindOf.s) /\ HasNoUppercase(result.s)
    ELSE IsStr(result, "[ID]")

PerLanguageVerdict ==
    CASE TheTag = "python" -> PythonVerdict
      [] TheTag = "javascript" -> JavascriptVerdict
      [] TheTag = "cpp" -> CppVerdict
      [] OTHER -> IsRawText

\* C6: the per-language tier.  For an entry with exactly one language tag for
\* which the common tier has no verdict, the result is the verdict of that
\* tag's heuristic, its tests taken in the listed order, and the raw
\* descriptive text when the heuristic has no verdict or the tag has none.
C6_PerLanguageTier ==
    (Called("shortdesc") /\ HasOneTag /\ CommonTierHasNoVerdict) => PerLanguageVerdict

\* C6 restricted to the entries that carry a descriptive text, where the code
\* agrees with it
C6_PerLanguageTierWithText ==
    (Called("shortdesc") /\ HasOneTag /\ CommonTierHasNoVerdict /\ MenuInfoOf.t = "str")
        => PerLanguageVerdict

\* C7: shortdesc returns a string for every entry the parser produces: never
\* null, never an exception.
C7_ShortdescIsAString == Called("shortdesc") => result.t = "str"

(***************************************************************************)
(* text(): the claim's reading of a menu text name(arg1, ..., argN).       *)
(***************************************************************************)
InsertionTextOf == Get(args.node.d, "insertion_text")
MenuTextOf == Get(args.node.d, "menu_text")

HasNoParenthesis(s) == \A i \in 1..Len(s) : CharAt(s, i) \notin {"(", ")"}

\* name(arg1, ..., argN): a name without parentheses, "(", the arguments, and
\* ")" as the last character
IsCallForm(menu_text) ==
    /\ find(menu_text, "(") >= 0
    /\ HasNoParenthesis(Upto(menu_text, find(menu_text, "(")))
    /\ CharAt(menu_text, Len(menu_text)) = ")"
    /\ NoNewline(menu_text)

\* what stands between the name's "(" and the closing ")"
ArgumentText(menu_text) == SubSeq(menu_text, find(menu_text, "(") + 2, Len(menu_text) - 1)

\* the arguments: the comma-separated parts, none for an empty list
Arguments(menu_text) ==
    IF ArgumentText(menu_text) = "" THEN <<>> ELSE split(ArgumentText(menu_text), ",")

RECURSIVE Placeholders(_, _)
\* ${n:arg}, ${n+1:arg'}, ... joined by ", "
Placeholders(arguments, n) ==
    IF Len(arguments) = 0 THEN ""
    ELSE "${" \o str_int(n) \o ":" \o strip(Head(arguments)) \o "}"
            \o (IF Len(arguments) > 1 THEN ", " ELSE "")
            \o Placeholders(Tail(arguments), n + 1)

\* no "(" with a ")" after it: not a call in any reading
HasNoCall(menu_text) ==
    ~\E i \in 1..Len(menu_text) : \E j \in (i + 1)..Len(menu_text) :
        CharAt(menu_text, i) = "(" /\ CharAt(menu_text, j) = ")"

\* C8: for an entry with non-empty insertion text, a menu text of the form
\* name(arg1, ..., argN) gives the insertion text followed by "(", the
\* placeholders ${1:arg1}, ..., ${N:argN} joined by ", " (arguments stripped,
\* numbered from 1) and ")"; an absent menu text, or one that holds no call,
\* gives the insertion text unchanged.
C8_InsertionText ==
    (Called("text") /\ Truthy(InsertionTextOf)) =>
        /\ (Truthy(MenuTextOf) /\ IsCallForm(MenuTextOf.s))
              => IsStr(result, InsertionTextOf.s \o "("
                                  \o Placeholders(Arguments(MenuTextOf.s), 1) \o ")")
        /\ (~Truthy(MenuTextOf) \/ HasNoCall(MenuTextOf.s))
              => IsStr(result, InsertionTextOf.s)

\* C8 restricted to the menu texts whose arguments hold no parentheses, where
\* the code agrees with it
C8_InsertionTextFlatArguments ==
    (Called("text") /\ Truthy(InsertionTextOf)) =>
        /\ ( /\ Truthy(MenuTextOf)
             /\ IsCallForm(MenuTextOf.s)
             /\ HasNoParenthesis(ArgumentText(MenuTextOf.s)) )
              => IsStr(result, InsertionTextOf.s \o "("
                                  \o Placeholders(Arguments(MenuTextOf.s), 1) \o ")")
        /\ (~Truthy(MenuTextOf) \/ HasNoCall(MenuTextOf.s))
              => IsStr(result, InsertionTextOf.s)

(***************************************************************************)
(* resolve_binary_path: the probe sequence the claims describe, by index.  *)
(***************************************************************************)
Resolving == op = "resolve_binary_path" /\ ~isabs(args.os_name, args.binpath)

\* the working directory, then the search directories in the given order
DirsInOrder ==
    <<IF args.workingdir.t = "none" THEN "." ELSE args.workingdir.s>>
        \o (IF Len(args.pathdirs) > 0 THEN args.pathdirs
            ELSE IF args.rawpath.t = "none" THEN <<>>
            ELSE split(args.rawpath.s, IF args.os_name = "nt" THEN ";" ELSE ":"))

\* the bare name, then on the executable-suffix platform its three variants
NameVariants ==
    IF args.os_name = "nt"
    THEN <<args.binpath, args.binpath \o ".exe", args.binpath \o ".cmd",
           args.binpath \o ".bat">>
    ELSE <<args.binpath>>

\* candidate k: directory by directory, each directory's variants together
ProbeOrder ==
    [k \in 1..(Len(DirsInOrder) * Len(NameVariants)) |->
        path_join(args.os_name,
                  DirsInOrder[((k - 1) \div Len(NameVariants)) + 1],
                  NameVariants[((k - 1) % Len(NameVariants)) + 1])]

IsRealFile(k) == ProbeOrder[k] \in args.files

SomeCandidateIsReal == \E k \in 1..Len(ProbeOrder) : IsRealFile(k)

FirstRealCandidate ==
    CHOOSE k \in 1..Len(ProbeOrder) : IsRealFile(k) /\ \A j \in 1..(k - 1) : ~IsRealFile(j)

\* C9: for a non-absolute name the candidates are probed in exactly the order
\* working directory, then the search directories as given, each directory's
\* bare candidate followed at once by its .exe, .cmd, .bat variants on the
\* suffix platform; the result is the first candidate of that order that is a
\* real file, and nothing after it is probed.
C9_ProbeOrder ==
    Resolving =>
        /\ \A i \in 1..Len(probed) :
              IF probed[i].t = "str"
              THEN i <= Len(ProbeOrder) /\ probed[i].s = ProbeOrder[i]
              ELSE i = Len(ProbeOrder) + 1
        /\ \A i \in 1..(Len(probed) - 1) : probed[i].s \notin args.files
        /\ (pc = "done" /\ SomeCandidateIsReal) =>
              /\ IsStr(result, ProbeOrder[FirstRealCandidate])
              /\ Len(probed) = FirstRealCandidate

\* C9 witness: on the suffix platform the first search directory holds only a
\* .cmd variant and the second the bare name; the .cmd variant is the result,
\* found at the seventh probe.
C9_Witness ==
    /\ Resolving
    /\ pc = "done"
    /\ args.os_name = "nt"
    /\ args.pathdirs = <<"/a", "/b">>
    /\ args.files = {"/a\\python.cmd", "/b\\python"}
    /\ IsStr(result, "/a\\python.cmd")
    /\ Len(probed) = 7

\* C10: for a non-absolute name, when no candidate path is a real file,
\* resolve_binary_path returns None and does not raise.
C10_NotFoundIsNone ==
    (Resolving /\ pc = "done" /\ ~SomeCandidateIsReal) => result.t = "none"

(***************************************************************************)
(* resolve_binary_path: what a returned value is.                          *)
(***************************************************************************)
\* the call has returned a value to its caller (it did not raise)
ReturnedValue == op = "resolve_binary_path" /\ pc = "done" /\ ~IsRaise(result)

\* the path was handed to isfile during this call and isfile accepted it
VerifiedDuringCall(path) ==
    /\ path.t = "str"
    /\ \E i \in 1..Len(probed) : probed[i] = path
    /\ path.s \in args.files

\* C11 as stated: every value resolve_binary_path returns, for an absolute or
\* a relative name, is either None or a path that isfile accepted during the
\* call.
C11_AsStated ==
    ReturnedValue => (result.t = "none" \/ VerifiedDuringCall(result))

\* C11 amended: every value returned for a relative name is either None or
\* a path that isfile accepted during the call; an absolute name is returned
\* unchanged, without being checked.
C11_ReturnedPathIsVerified ==
    ReturnedValue =>
        IF isabs(args.os_name, args.binpath)
        THEN IsStr(result, args.binpath)
        ELSE result.t = "none" \/ VerifiedDuringCall(result)

\* C11 witness: a relative name was searched for, two candidates were refused
\* and the third was returned.
C11_Witness ==
    /\ ReturnedValue
    /\ ~isabs(args.os_name, args.binpath)
    /\ Len(probed) >= 3
    /\ result.t = "str"

(***************************************************************************)
(* get_common_ancestor: the paths of a call, by component.                 *)
(***************************************************************************)
CommonAncestorCall == Called("get_common_ancestor")

PathsOf == args.paths

\* the components of the i-th path, as the platform of the call splits it
ComponentsOf(i) == _split_path_components(args.os_name, PathsOf[i])

\* the path is absolute: it starts at the root, its first component is empty
IsAbsolutePath(i) == Len(ComponentsOf(i)) >= 2 /\ ComponentsOf(i)[1] = ""

\* the name of the first directory below the root
FirstDirectoryName(i) == ComponentsOf(i)[2]

\* two or more absolute paths whose first directory names differ
C12_Case ==
    /\ CommonAncestorCall
    /\ Len(PathsOf) >= 2
    /\ \A i \in 1..Len(PathsOf) : IsAbsolutePath(i)
    /\ \E i, j \in 1..Len(PathsOf) : FirstDirectoryName(i) # FirstDirectoryName(j)

\* C12: for two or more absolute paths whose first directory names differ the
\* common ancestor fails with a value error, and get_common_ancestor returns
\* the default of the caller.
C12_NoCommonAncestorOfDifferentRoots ==
    C12_Case =>
        /\ IsRaise(_commonpath_polyfill(args.os_name, PathsOf))
        /\ result = args.default

(***************************************************************************)
(* _commonpath_polyfill: the agreeing leading components of a call.        *)
(***************************************************************************)
PolyfillCall == Called("_commonpath_polyfill")

\* the length of the shortest path, in components
ShortestLength ==
    CHOOSE n \in {Len(ComponentsOf(i)) : i \in 1..Len(PathsOf)} :
        \A i \in 1..Len(PathsOf) : n <= Len(ComponentsOf(i))

\* all paths have the same component at (1-based) position k
AllAgreeAt(k) == \A i \in 1..Len(PathsOf) : ComponentsOf(i)[k] = ComponentsOf(1)[k]

\* the number of agreeing leading components: the (0-based) first index at
\* which not all paths agree, the length of the shortest path when none
\* disagrees
AgreeingCount ==
    IF \E k \in 1..ShortestLength : ~AllAgreeAt(k)
    THEN (CHOOSE k \in 1..ShortestLength :
              ~AllAgreeAt(k) /\ \A j \in 1..(k - 1) : AllAgreeAt(j)) - 1
    ELSE ShortestLength

\* the agreeing leading components of the call
AgreeingComponents == SubSeq(ComponentsOf(1), 1, AgreeingCount)

SeparatorOf == IF args.os_name = "nt" THEN "\\" ELSE "/"

\* the components joined by the separator; the root alone, whose only
\* component is empty, is the separator
JoinOf(components) ==
    IF components = <<"">> THEN SeparatorOf ELSE join(SeparatorOf, components)

IsNamed(c) == c # ""

\* the named components after the first
NamedAfterFirst(components) == SelectSeq(Tail(components), IsNamed)

\* the first component closed by a separator, then the named components
\* after it, one separator between them; a separator at the end when the
\* last of several components is empty
DirectoryJoinOf(components) ==
    LET base == Head(components) \o SeparatorOf
                   \o join(SeparatorOf, NamedAfterFirst(components))
    IN IF NamedAfterFirst(components) # <<>> /\ components[Len(components)] = ""
       THEN base \o SeparatorOf
       ELSE base

\* C13 as stated: for zero paths the common ancestor fails with a value
\* error; for one path it is that path verbatim; for more than one path with
\* at least one agreeing leading component it is the join of exactly the
\* agreeing leading components, those before the first index at which not
\* all paths agree.
C13_AsStated ==
    PolyfillCall =>
        /\ Len(PathsOf) = 0 => result = Raise("ValueError")
        /\ Len(PathsOf) = 1 => IsStr(result, PathsOf[1])
        /\ (Len(PathsOf) > 1 /\ AgreeingCount >= 1) =>
              IsStr(result, JoinOf(AgreeingComponents))

\* C13 amended: as above for zero paths and one path; for more than one path
\* with at least one agreeing leading component the result is the first
\* agreeing component followed by a separator, then the non-empty agreeing
\* components after it with one separator between them, and a closing
\* separator when the last agreeing component is empty and a non-empty one
\* precedes it.
C13_CommonAncestorIsAgreeingPrefix ==
    PolyfillCall =>
        /\ Len(PathsOf) = 0 => result = Raise("ValueError")
        /\ Len(PathsOf) = 1 => IsStr(result, PathsOf[1])
        /\ (Len(PathsOf) > 1 /\ AgreeingCount >= 1) =>
              IsStr(result, DirectoryJoinOf(AgreeingComponents))

\* C13 witness: three different paths agree on their first two components;
\* one of them goes on with a third.
C13_Witness ==
    /\ PolyfillCall
    /\ Len(PathsOf) = 3
    /\ AgreeingCount = 2
    /\ \E i \in 1..3 : Len(ComponentsOf(i)) = 3
    /\ result.t = "str"

(***************************************************************************)
(* is_compile_flag_missing_error: the entry of a call.                     *)
(***************************************************************************)
CompileFlagCall == Called("is_compile_flag_missing_error")

ExceptionTypeIs(name) == args.self.exception_type = Str(name)

MessageContains(p) == args.self.message.t = "str" /\ contains(args.self.message.s, p)

\* the call gave a verdict, and the verdict counts as true
VerdictIsTrue == ~IsRaise(result) /\ Truthy(result)

\* the call gave a verdict, and the verdict counts as false
VerdictIsFalse == ~IsRaise(result) /\ ~Truthy(result)

\* C14: for an entry whose exception type is 'RuntimeError' the verdict of
\* is_compile_flag_missing_error is true exactly when the message contains
\* 'no compile flags', and false when the message is absent; for an entry of
\* any other exception type the call is rejected and gives no verdict.
C14_CompileFlagMissing ==
    CompileFlagCall =>
        IF ExceptionTypeIs("RuntimeError")
        THEN IF MessageContains("no compile flags") THEN VerdictIsTrue
             ELSE VerdictIsFalse
        ELSE IsRaise(result)

\* C14 witness: a runtime error whose message holds the words inside a longer
\* text is recognised.
C14_Witness ==
    /\ CompileFlagCall
    /\ ExceptionTypeIs("RuntimeError")
    /\ MessageContains("no compile flags")
    /\ args.self.message # Str("no compile flags")
    /\ VerdictIsTrue

(***************************************************************************)
(* get_base_name: the names a path is made of.                             *)
(***************************************************************************)
BaseNameCall == Called("get_base_name") /\ args.path.t = "str"

IsSeparator(c) == c \in (IF args.os_name = "nt" THEN {"\\", "/"} ELSE {"/"})

\* the path below its drive
BelowDrive ==
    IF args.os_name = "nt" /\ Len(args.path.s) >= 2 /\ SubSeq(args.path.s, 2, 2) = ":"
    THEN SubSeq(args.path.s, 3, Len(args.path.s))
    ELSE args.path.s

\* the path with one trailing separator stripped, when it has one
OneSeparatorStripped ==
    IF Len(BelowDrive) > 0 /\ IsSeparator(SubSeq(BelowDrive, Len(BelowDrive), Len(BelowDrive)))
    THEN SubSeq(BelowDrive, 1, Len(BelowDrive) - 1)
    ELSE BelowDrive

\* positions i..j hold a component: no separator inside, one (or the end of
\* the path) on either side
IsComponentAt(p, i, j) ==
    /\ i <= j
    /\ \A k \in i..j : ~IsSeparator(SubSeq(p, k, k))
    /\ i = 1 \/ IsSeparator(SubSeq(p, i - 1, i - 1))
    /\ j = Len(p) \/ IsSeparator(SubSeq(p, j + 1, j + 1))

HasComponent(p) == \E i, j \in 1..Len(p) : IsComponentAt(p, i, j)

\* the last non-empty component
LastComponent(p) ==
    LET ij == CHOOSE ij \in (1..Len(p)) \X (1..Len(p)) :
                 /\ IsComponentAt(p, ij[1], ij[2])
                 /\ \A k \in (ij[2] + 1)..Len(p) : IsSeparator(SubSeq(p, k, k))
    IN SubSeq(p, ij[1], ij[2])

\* a root or mount point: it has no last component
IsMountPoint == ~HasComponent(OneSeparatorStripped)

\* C15: the base name of a path is its last non-empty component once a
\* trailing separator is stripped, and the base name of a root or mount point
\* is None.
C15_BaseName ==
    BaseNameCall =>
        IF IsMountPoint THEN result = None
        ELSE IsStr(result, LastComponent(OneSeparatorStripped))

\* C15 restricted to the paths that have a last component, where the code
\* agrees with it
C15_BaseNameOfNamedPath ==
    (BaseNameCall /\ ~IsMountPoint) => IsStr(result, LastComponent(OneSeparatorStripped))

(***************************************************************************)
(* resolve_abspath: the path and the start of a call.                      *)
(***************************************************************************)
AbspathCall == Called("resolve_abspath") /\ args.path.t = "str"

PathIsAbsolute == isabs(args.os_name, args.path.s)

\* the start the call resolves against: the working directory when none is
\* given
StartOf == IF args.start.t = "none" THEN Str(getcwd(args.os_name)) ELSE args.start

StartIsAbsolute == StartOf.t = "str" /\ isabs(args.os_name, StartOf.s)

EndsWith(s, p) == Len(p) <= Len(s) /\ SubSeq(s, Len(s) - Len(p) + 1, Len(s)) = p

\* C16: resolve_abspath returns an absolute path as it is; a relative path is
\* joined to the start (the working directory when no start is given), so
\* that for an absolute start the result is an absolute path that begins
\* with the start and ends with the relative path.
C16_ResolveAbspath ==
    AbspathCall =>
        /\ PathIsAbsolute => result = args.path
        /\ (~PathIsAbsolute /\ StartIsAbsolute) =>
              /\ result.t = "str"
              /\ isabs(args.os_name, result.s)
              /\ startswith(result.s, StartOf.s)
              /\ EndsWith(result.s, args.path.s)

\* C16 restricted to absolute paths, where the code agrees with it
C16_AbsolutePathAsIs ==
    (AbspathCall /\ PathIsAbsolute) => result = args.path

(***************************************************************************)
(* _split_path_components: the split the two-separator scan is compared    *)
(* with.                                                                   *)
(***************************************************************************)
SplitCall == Called("_split_path_components")

HasTwoSeparators == args.os_name = "nt"

RECURSIVE Replaced(_, _, _)
\* the path with every character old replaced by new
Replaced(path, old, new) ==
    IF path = "" THEN ""
    ELSE (IF SubSeq(path, 1, 1) = old THEN new ELSE SubSeq(path, 1, 1))
            \o Replaced(SubSeq(path, 2, Len(path)), old, new)

\* the single-separator split of the path with every secondary separator
\* replaced by the primary one
SingleSeparatorSplit == split(Replaced(args.path, "/", "\\"), "\\")

\* C17: with two separator characters, _split_path_components yields for
\* every path (the empty path and paths with leading, trailing, consecutive
\* or mixed separators included) the component list of the single-separator
\* split of the path with every secondary separator replaced by the primary.
C17_SameAsSingleSeparatorSplit ==
    (SplitCall /\ HasTwoSeparators /\ pc = "done") => result.l = SingleSeparatorSplit

\* C17 as the code has it: the scan yields the same components except that a
\* final empty component, the one after a trailing separator or the only
\* one of the empty path, is not yielded
C17_SameUpToFinalEmptyComponent ==
    (SplitCall /\ HasTwoSeparators /\ pc = "done") =>
        LET single == SingleSeparatorSplit
        IN IF single[Len(single)] = ""
           THEN result.l = SubSeq(single, 1, Len(single) - 1)
           ELSE result.l = single

\* C17, termination: the left-to-right scan ends for every path
C17_ScanTerminates == (pc = "scanning") ~> (pc = "done")

====
